---- MODULE Spec2Model ----
(***************************************************************************)
(* script.rnaseq_map.py: discovery of paired and unpaired read files, the  *)
(* assembly of one hisat2 command per job, the generation of the SGE job   *)
(* array script, its submission with qsub, and the run of the generated    *)
(* script under the scheduler.                                             *)
(*                                                                         *)
(* Python strings are sequences of one-character strings, so that globbing,*)
(* sorting, re.sub, str.split and the quoting of the commands inside the   *)
(* generated script are computed character by character.                   *)
(***************************************************************************)
EXTENDS Integers, Sequences, FiniteSets, TLC

VARIABLES
    dir,         \* names of the entries of the input directory
    mpc,         \* position of main()
    files,       \* result of search_files: [paired, unpaired]
    commands,    \* list(assemble_commands(...))
    script,      \* script_contents: [task_range, lines]
    disk,        \* contents of script.autogenerated.rnaseq_map_jobs.py
    qsub_rc,     \* outcome of the last qsub call ("none" before it)
    qsub_calls,  \* number of qsub calls of the current run of main
    prev,        \* commands of the previous run of main over the same directory
    runs,        \* completed runs of main
    fs,          \* output path -> "absent" | "truncated" | "complete"
    tpc,         \* position of each instance of the generated script
    tid,         \* SGE_TASK_ID of each instance
    tcmd,        \* command fetched by each instance
    tout,        \* output_file parsed by each instance
    sawfile,     \* what Path(output_file).exists() returned to each instance
    tlog,        \* messages printed by each instance in its current run
    nalign,      \* aligner subprocesses started by each instance in its current run
    arc,         \* return code of the aligner of each instance (-1: none)
    texit,       \* exit status of each instance (-1: not exited)
    lastfail,    \* output path -> task id whose failed aligner run was the last to end on it (0: none)
    stale,       \* instance launched after a failed run of the same task id
    launches     \* launches of the generated script so far

mainvars == <<dir, mpc, files, commands, script, disk, qsub_rc, qsub_calls, prev, runs>>
taskvars == <<fs, tpc, tid, tcmd, tout, sawfile, tlog, nalign, arc, texit, lastfail, stale, launches>>
vars == <<dir, mpc, files, commands, script, disk, qsub_rc, qsub_calls, prev, runs,
          fs, tpc, tid, tcmd, tout, sawfile, tlog, nalign, arc, texit, lastfail, stale, launches>>

\* Bounds of the model.
MaxFiles == 3
MaxRuns == 1
MaxInst == 2
MaxLaunch == 2

(***************************************************************************)
(* Strings                                                                 *)
(***************************************************************************)

\* The characters of the model in code point order (sorted() compares str by code point).
Ascii == <<" ", "'", "-", ".", "/", "0", "1", "2", "3", "4", "5", "6", "7", "8", "9",
           "=", "R", "S", "U", "[", "]", "_",
           "a", "b", "c", "d", "e", "f", "g", "h", "i", "j", "k", "l", "m",
           "n", "o", "p", "q", "r", "s", "t", "u", "v", "w", "x", "y", "z">>

Code(c) == CHOOSE i \in DOMAIN Ascii : Ascii[i] = c

RECURSIVE StrLess(_, _)
StrLess(s, t) ==
    IF s = <<>> THEN t # <<>>
    ELSE IF t = <<>> THEN FALSE
    ELSE IF s[1] = t[1] THEN StrLess(Tail(s), Tail(t))
    ELSE Code(s[1]) < Code(t[1])

RECURSIVE Insert(_, _)
Insert(x, seq) ==
    IF seq = <<>> THEN <<x>>
    ELSE IF StrLess(x, seq[1]) THEN <<x>> \o seq
    ELSE <<seq[1]>> \o Insert(x, Tail(seq))

RECURSIVE Sorted(_)
Sorted(seq) == IF seq = <<>> THEN <<>> ELSE Insert(seq[1], Sorted(Tail(seq)))

StartsWith(s, pat) == Len(s) >= Len(pat) /\ SubSeq(s, 1, Len(pat)) = pat

EndsWith(s, pat) == Len(s) >= Len(pat) /\ SubSeq(s, Len(s) - Len(pat) + 1, Len(s)) = pat

Contains(s, pat) == \E i \in 1..(Len(s) - Len(pat) + 1) : SubSeq(s, i, i + Len(pat) - 1) = pat

Drop(s, n) == SubSeq(s, n + 1, Len(s))

\* The k-th smallest element of a set of integers.
Nth(S, k) == CHOOSE p \in S : Cardinality({q \in S : q < p}) = k - 1

\* str.split(): the maximal runs of non-whitespace characters.
Split(s) ==
    LET starts == {i \in DOMAIN s : s[i] # " " /\ (i = 1 \/ s[i - 1] = " ")}
        ends == {i \in DOMAIN s : s[i] # " " /\ (i = Len(s) \/ s[i + 1] = " ")}
    IN  [k \in 1..Cardinality(starts) |-> SubSeq(s, Nth(starts, k), Nth(ends, k))]

Digits == <<"0", "1", "2", "3", "4", "5", "6", "7", "8", "9">>

\* str(n) of a non-negative int, as the f-strings format it.
RECURSIVE IntStr(_)
IntStr(n) == IF n < 10 THEN <<Digits[n + 1]>> ELSE IntStr(n \div 10) \o <<Digits[(n % 10) + 1]>>

IsDigit(c) == \E i \in DOMAIN Digits : Digits[i] = c

DigitVal(c) == (CHOOSE i \in DOMAIN Digits : Digits[i] = c) - 1

\* int(s) of a string of decimal digits; -1 stands for the ValueError.
RECURSIVE ParseIntAcc(_, _)
ParseIntAcc(s, acc) ==
    IF s = <<>> THEN acc
    ELSE IF ~IsDigit(s[1]) THEN -1
    ELSE ParseIntAcc(Tail(s), 10 * acc + DigitVal(s[1]))

ParseInt(s) == IF s = <<>> THEN -1 ELSE ParseIntAcc(s, 0)

(***************************************************************************)
(* Paths and file names                                                    *)
(***************************************************************************)

\* The resolved --input_dir, --output_dir and --idx_prefix.
InputDir == <<"/", "t">>
OutputDir == <<"/", "m">>
IdxPrefix == <<"/", "i">>

\* Path(d) / name
PathJoin(d, name) == d \o <<"/">> \o name

\* Path(p).name: the part after the last "/".
RECURSIVE PathName(_)
PathName(p) ==
    IF \E i \in DOMAIN p : p[i] = "/"
    THEN PathName(Drop(p, CHOOSE i \in DOMAIN p : p[i] = "/" /\ \A j \in 1..(i - 1) : p[j] # "/"))
    ELSE p

R1_PAIRED == <<"R", "1", "_", "p", "a", "i", "r", "e", "d">>
R2_PAIRED == <<"R", "2", "_", "p", "a", "i", "r", "e", "d">>
FASTQ == <<"f", "a", "s", "t", "q">>
SAM == <<"s", "a", "m">>
TRIMMED_FASTQ == <<"t", "r", "i", "m", "m", "e", "d", ".">> \o FASTQ

\* Entries an input directory may hold.
N_a_R1_paired == <<"a", "_">> \o R1_PAIRED \o <<".">> \o FASTQ
N_a_R2_paired == <<"a", "_">> \o R2_PAIRED \o <<".">> \o FASTQ
N_b_trimmed == <<"b", "_">> \o TRIMMED_FASTQ
N_a_paired_trimmed == <<"a", "_", "p", "a", "i", "r", "e", "d", "_">> \o TRIMMED_FASTQ
N_a_R1_paired_trimmed == <<"a", "_">> \o R1_PAIRED \o <<"_">> \o TRIMMED_FASTQ
N_a_R2_paired_trimmed == <<"a", "_">> \o R2_PAIRED \o <<"_">> \o TRIMMED_FASTQ
N_c_quote_trimmed == <<"c", "'", "_">> \o TRIMMED_FASTQ
N_a_R1_paired_R2_paired == <<"a", "_">> \o R1_PAIRED \o <<"_">> \o R2_PAIRED \o <<".">> \o FASTQ
N_notes == <<"n", "o", "t", "e", "s", ".", "t", "x", "t">>

Names == {N_a_R1_paired, N_a_R2_paired, N_b_trimmed, N_a_paired_trimmed,
          N_a_R1_paired_trimmed, N_a_R2_paired_trimmed, N_c_quote_trimmed,
          N_a_R1_paired_R2_paired, N_notes}

Dirs == {d \in SUBSET Names : Cardinality(d) <= MaxFiles}

\* The orders in which a scan of directory d may yield its entries.
Listings(d) ==
    {s \in [1..Cardinality(d) -> d] : \A i, j \in 1..Cardinality(d) : s[i] = s[j] => i = j}

\* dir.glob('*<pat>*') and dir.glob('*<pat>') over one scan of the directory.
GlobContains(d, listing, pat) ==
    LET hits == SelectSeq(listing, LAMBDA n : Contains(n, pat))
    IN  [i \in DOMAIN hits |-> PathJoin(d, hits[i])]

GlobEndsWith(d, listing, pat) ==
    LET hits == SelectSeq(listing, LAMBDA n : EndsWith(n, pat))
    IN  [i \in DOMAIN hits |-> PathJoin(d, hits[i])]

(***************************************************************************)
(* File discovery                                                          *)
(***************************************************************************)

Min(a, b) == IF a < b THEN a ELSE b

Zip(a, b) == [i \in 1..Min(Len(a), Len(b)) |-> <<a[i], b[i]>>]

\* find_paired without the sort of the R2 side.
FindPairedUnsorted(d, listing) ==
    Zip(Sorted(GlobContains(d, listing, R1_PAIRED)), GlobContains(d, listing, R2_PAIRED))

FindPaired(d, listing) ==
    LET R1 == GlobContains(d, listing, R1_PAIRED)
        R2 == GlobContains(d, listing, R2_PAIRED)
    IN  Zip(Sorted(R1), Sorted(R2))

\* find_unpaired without the exclusion of the already paired files.
FindUnpairedAll(d, listing, already_paired) == GlobEndsWith(d, listing, TRIMMED_FASTQ)

FindUnpaired(d, listing, already_paired) ==
    SelectSeq(GlobEndsWith(d, listing, TRIMMED_FASTQ), LAMBDA f : f \notin already_paired)

\* chain.from_iterable(pairs), as the set find_unpaired makes of it.
Flatten(pairs) == {pairs[i][1] : i \in DOMAIN pairs} \cup {pairs[i][2] : i \in DOMAIN pairs}

SearchFiles(d, listing) ==
    LET pairs == FindPaired(d, listing)
        loners == FindUnpaired(d, listing, Flatten(pairs))
    IN  [paired |-> pairs, unpaired |-> loners]

(***************************************************************************)
(* Command assembly                                                        *)
(***************************************************************************)

\* re.sub('fastq$', 'sam', s)
SubFastq(s) == IF EndsWith(s, FASTQ) THEN SubSeq(s, 1, Len(s) - Len(FASTQ)) \o SAM ELSE s

\* re.sub('_R[12]_', '_', s): leftmost non-overlapping matches.
RECURSIVE SubReadIndex(_)
SubReadIndex(s) ==
    IF Len(s) < 4 THEN s
    ELSE IF s[1] = "_" /\ s[2] = "R" /\ s[3] \in {"1", "2"} /\ s[4] = "_"
         THEN <<"_">> \o SubReadIndex(Drop(s, 4))
    ELSE <<s[1]>> \o SubReadIndex(Tail(s))

HISAT2 == <<"h", "i", "s", "a", "t", "2", " ", "-", "-", "d", "t", "a", " ", "-", "x", " ">>

UnpairedCommand(idx_prefix, output_path, unpaired_f) ==
    LET out_filename == SubFastq(PathName(unpaired_f))
        S == PathJoin(output_path, out_filename)
    IN  HISAT2 \o idx_prefix \o <<" ", "-", "U", " ">> \o unpaired_f \o <<" ", "-", "S", " ">> \o S

PairedCommand(idx_prefix, output_path, p1, p2) ==
    LET out_filename == SubFastq(SubReadIndex(PathName(p1)))
        S == PathJoin(output_path, out_filename)
    IN  HISAT2 \o idx_prefix \o <<" ", "-", "1", " ">> \o p1 \o <<" ", "-", "2", " ">> \o p2
               \o <<" ", "-", "S", " ">> \o S

AssembleCommands(fl, idx_prefix, output_path) ==
    [i \in DOMAIN fl.unpaired |-> UnpairedCommand(idx_prefix, output_path, fl.unpaired[i])]
    \o [i \in DOMAIN fl.paired |-> PairedCommand(idx_prefix, output_path, fl.paired[i][1], fl.paired[i][2])]

\* command.split()[command.split().index("-S") + 1]; <<>> stands for the
\* ValueError or IndexError of a command without that token.
OutputFile(command) ==
    LET toks == Split(command)
        at == {i \in DOMAIN toks : toks[i] = <<"-", "S">>}
    IN  IF at = {} THEN <<>>
        ELSE LET i == CHOOSE i \in at : \A j \in at : i <= j
             IN  IF i + 1 \in DOMAIN toks THEN toks[i + 1] ELSE <<>>

(***************************************************************************)
(* The generated script                                                    *)
(***************************************************************************)

COMMANDS_OPEN == <<"c", "o", "m", "m", "a", "n", "d", "s", "[">>

\* f"commands[{i+1}]='{s}'" for (i, s) of enumerate(commands)
ScriptLine(i, s) == COMMANDS_OPEN \o IntStr(i + 1) \o <<"]", "=", "'">> \o s \o <<"'">>

\* The parts of script_contents that depend on the commands: the range of
\* the directive "#$ -t 1-{len(commands)}" and the lines of commands_str.
GenerateScript(cmds) ==
    [task_range |-> <<"1", "-">> \o IntStr(Len(cmds)),
     lines |-> [k \in DOMAIN cmds |-> ScriptLine(k - 1, cmds[k])]]

NoScript == [task_range |-> <<>>, lines |-> <<>>]

\* The upper end n of the range "1-n" the scheduler reads from the directive; -1 if malformed.
TaskRangeUpper(sc) ==
    IF StartsWith(sc.task_range, <<"1", "-">>) THEN ParseInt(Drop(sc.task_range, 2)) ELSE -1

Blank(s) == \A i \in DOMAIN s : s[i] = " "

RECURSIVE Concat(_)
Concat(segs) == IF segs = <<>> THEN <<>> ELSE segs[1] \o Concat(Tail(segs))

\* The value Python gives the expression at the right of "=" on a line of
\* commands_str. Each "'" opens or closes a string literal; adjacent literals
\* concatenate; an unterminated literal or any other token next to a literal
\* is an error and the script does not run.
PyLiteral(s) ==
    LET quotes == {p \in DOMAIN s : s[p] = "'"}
        n == Cardinality(quotes)
        q(k) == Nth(quotes, k)
        literals == [m \in 1..(n \div 2) |-> SubSeq(s, q(2 * m - 1) + 1, q(2 * m) - 1)]
        between == [m \in 1..((n \div 2) - 1) |-> SubSeq(s, q(2 * m) + 1, q(2 * m + 1) - 1)]
    IN  IF n >= 2 /\ n % 2 = 0
           /\ Blank(SubSeq(s, 1, q(1) - 1)) /\ Blank(SubSeq(s, q(n) + 1, Len(s)))
           /\ \A m \in DOMAIN between : Blank(between[m])
        THEN [ok |-> TRUE, val |-> Concat(literals)]
        ELSE [ok |-> FALSE, val |-> <<>>]

\* One line "commands[<key>]=<expression>" as Python reads it.
ParseLine(line) ==
    LET body == Drop(line, Len(COMMANDS_OPEN))
        close == CHOOSE i \in DOMAIN body : body[i] = "]" /\ \A j \in 1..(i - 1) : body[j] # "]"
        key == ParseInt(SubSeq(body, 1, close - 1))
        expr == Drop(body, close + 1)
        lit == IF expr # <<>> /\ expr[1] = "'" THEN PyLiteral(expr)
               ELSE [ok |-> FALSE, val |-> <<>>]
    IN  [ok |-> key >= 0 /\ body[close + 1] = "=" /\ lit.ok, key |-> key, val |-> lit.val]

\* The dict `commands` after "commands = dict()" and the lines of commands_str
\* have run: [ok |-> FALSE] when the script does not run.
LoadCommands(sc) ==
    LET parsed == [k \in DOMAIN sc.lines |-> ParseLine(sc.lines[k])]
        keys == {parsed[k].key : k \in DOMAIN parsed}
        last(key) == CHOOSE k \in DOMAIN parsed :
                        parsed[k].key = key /\ \A j \in DOMAIN parsed : parsed[j].key = key => j <= k
    IN  IF \E k \in DOMAIN parsed : ~parsed[k].ok
        THEN [ok |-> FALSE, map |-> <<>>]
        ELSE [ok |-> TRUE, map |-> [key \in keys |-> parsed[last(key)].val]]

(***************************************************************************)
(* main()                                                                  *)
(***************************************************************************)

Inst == 1..MaxInst

NoFiles == [paired |-> <<>>, unpaired |-> <<>>]

TaskIdle ==
    /\ fs = <<>>
    /\ tpc = [i \in Inst |-> "idle"]
    /\ tid = [i \in Inst |-> 0]
    /\ tcmd = [i \in Inst |-> <<>>]
    /\ tout = [i \in Inst |-> <<>>]
    /\ sawfile = [i \in Inst |-> "none"]
    /\ tlog = [i \in Inst |-> <<>>]
    /\ nalign = [i \in Inst |-> 0]
    /\ arc = [i \in Inst |-> -1]
    /\ texit = [i \in Inst |-> -1]
    /\ lastfail = <<>>
    /\ stale = [i \in Inst |-> FALSE]
    /\ launches = 0

Init ==
    /\ dir \in Dirs
    /\ mpc = "start"
    /\ files = NoFiles
    /\ commands = <<>>
    /\ script = NoScript
    /\ disk = NoScript
    /\ qsub_rc = "none"
    /\ qsub_calls = 0
    /\ prev = <<>>
    /\ runs = 0
    /\ TaskIdle

\* files = search_files(input_dir), over whatever order the directory scan yields.
Search ==
    /\ mpc = "start"
    /\ \E listing \in Listings(dir) : files' = SearchFiles(InputDir, listing)
    /\ mpc' = "searched"
    /\ UNCHANGED <<dir, commands, script, disk, qsub_rc, qsub_calls, prev, runs>>
    /\ UNCHANGED taskvars

\* commands = list(assemble_commands(files, idx_prefix, output_dir))
Assemble ==
    /\ mpc = "searched"
    /\ commands' = AssembleCommands(files, IdxPrefix, OutputDir)
    /\ mpc' = "assembled"
    /\ UNCHANGED <<dir, files, script, disk, qsub_rc, qsub_calls, prev, runs>>
    /\ UNCHANGED taskvars

\* get_output('which python3') and the script_contents f-string; check_output
\* raises CalledProcessError when `which` exits non-zero.
Generate ==
    /\ mpc = "assembled"
    /\ \E which_ok \in BOOLEAN :
          IF which_ok
          THEN script' = GenerateScript(commands) /\ mpc' = "generated"
          ELSE script' = script /\ mpc' = "raised"
    /\ UNCHANGED <<dir, files, commands, disk, qsub_rc, qsub_calls, prev, runs>>
    /\ UNCHANGED taskvars

\* with open(script_name, 'w') as outf: outf.write(script_contents)
WriteScript ==
    /\ mpc = "generated"
    /\ \E write_ok \in BOOLEAN :
          IF write_ok
          THEN disk' = script /\ mpc' = "written"
          ELSE disk' = NoScript /\ mpc' = "raised"
    /\ UNCHANGED <<dir, files, commands, script, qsub_rc, qsub_calls, prev, runs>>
    /\ UNCHANGED taskvars

\* What main() does with the outcome of subprocess.run(["qsub", script_name]):
\* run() passes no check=True, so a CompletedProcess of any return code is
\* returned and dropped; only a missing executable raises (FileNotFoundError).
AfterQsub(outcome) == IF outcome = "notfound" THEN "raised" ELSE "returned"

\* run(f"qsub {script_name}")
Submit ==
    /\ mpc = "written"
    /\ \E outcome \in {"zero", "nonzero", "notfound"} :
          /\ qsub_rc' = outcome
          /\ mpc' = AfterQsub(outcome)
    /\ qsub_calls' = qsub_calls + 1
    /\ UNCHANGED <<dir, files, commands, script, disk, prev, runs>>
    /\ UNCHANGED taskvars

\* The operator invokes the program again over the same directory.
Rerun ==
    /\ mpc \in {"returned", "raised"}
    /\ runs < MaxRuns
    /\ prev' = commands
    /\ runs' = runs + 1
    /\ mpc' = "start"
    /\ files' = NoFiles
    /\ commands' = <<>>
    /\ script' = NoScript
    /\ qsub_rc' = "none"
    /\ qsub_calls' = 0
    /\ UNCHANGED <<dir, disk>>
    /\ UNCHANGED taskvars

Next == Search \/ Assemble \/ Generate \/ WriteScript \/ Submit \/ Rerun

Spec == Init /\ [][Next]_vars

(***************************************************************************)
(* The generated script, run by the scheduler                              *)
(***************************************************************************)

\* The directories whose generated script the scheduler runs in the model.
TaskDirs == {{N_a_R1_paired, N_a_R2_paired, N_b_trimmed},
             {N_b_trimmed, N_c_quote_trimmed},
             {N_a_paired_trimmed, N_a_R1_paired_trimmed, N_a_R2_paired_trimmed}}

OutputFiles(cmds) == {OutputFile(cmds[k]) : k \in DOMAIN cmds}

\* The state once main() has written the script and qsub has accepted it.
TaskInit ==
    /\ dir \in TaskDirs
    /\ \E listing \in Listings(dir) : files = SearchFiles(InputDir, listing)
    /\ commands = AssembleCommands(files, IdxPrefix, OutputDir)
    /\ script = GenerateScript(commands)
    /\ disk = script
    /\ mpc = "returned"
    /\ qsub_rc = "zero"
    /\ qsub_calls = 1
    /\ prev = <<>>
    /\ runs = 0
    /\ fs = [f \in OutputFiles(commands) |-> "absent"]
    /\ lastfail = [f \in OutputFiles(commands) |-> 0]
    /\ tpc = [i \in Inst |-> "idle"]
    /\ tid = [i \in Inst |-> 0]
    /\ tcmd = [i \in Inst |-> <<>>]
    /\ tout = [i \in Inst |-> <<>>]
    /\ sawfile = [i \in Inst |-> "none"]
    /\ tlog = [i \in Inst |-> <<>>]
    /\ nalign = [i \in Inst |-> 0]
    /\ arc = [i \in Inst |-> -1]
    /\ texit = [i \in Inst |-> -1]
    /\ stale = [i \in Inst |-> FALSE]
    /\ launches = 0

\* The scheduler (or a resubmission) starts the script with SGE_TASK_ID = k,
\* k in the range of the "-t" directive.
Launch(i, k) ==
    /\ tpc[i] \in {"idle", "exited"}
    /\ launches < MaxLaunch
    /\ k \in 1..TaskRangeUpper(disk)
    /\ launches' = launches + 1
    /\ tid' = [tid EXCEPT ![i] = k]
    /\ tpc' = [tpc EXCEPT ![i] = "load"]
    /\ tcmd' = [tcmd EXCEPT ![i] = <<>>]
    /\ tout' = [tout EXCEPT ![i] = <<>>]
    /\ sawfile' = [sawfile EXCEPT ![i] = "none"]
    /\ tlog' = [tlog EXCEPT ![i] = <<>>]
    /\ nalign' = [nalign EXCEPT ![i] = 0]
    /\ arc' = [arc EXCEPT ![i] = -1]
    /\ texit' = [texit EXCEPT ![i] = -1]
    /\ stale' = [stale EXCEPT ![i] = k \in DOMAIN commands /\ lastfail[OutputFile(commands[k])] = k]
    /\ UNCHANGED <<fs, lastfail>>
    /\ UNCHANGED mainvars

\* Python compiles the script and runs it up to the parse of output_file: a
\* SyntaxError, the KeyError of a missing task id and the ValueError of a
\* command without "-S" all end the process with status 1.
Load(i) ==
    /\ tpc[i] = "load"
    /\ LET loaded == LoadCommands(disk)
           found == loaded.ok /\ tid[i] \in DOMAIN loaded.map
           command == IF found THEN loaded.map[tid[i]] ELSE <<>>
           output_file == OutputFile(command)
       IN  IF found /\ output_file # <<>>
           THEN /\ tcmd' = [tcmd EXCEPT ![i] = command]
                /\ tout' = [tout EXCEPT ![i] = output_file]
                /\ tpc' = [tpc EXCEPT ![i] = "check"]
                /\ texit' = texit
           ELSE /\ tpc' = [tpc EXCEPT ![i] = "exited"]
                /\ texit' = [texit EXCEPT ![i] = 1]
                /\ UNCHANGED <<tcmd, tout>>
    /\ UNCHANGED <<fs, tid, sawfile, tlog, nalign, arc, lastfail, stale, launches>>
    /\ UNCHANGED mainvars

\* An existence check that also counts a file another instance is about to
\* write or is writing as existing.
OutputExistsOrClaimed(f) ==
    \/ fs[f] # "absent"
    \/ \E j \in Inst : tout[j] = f /\ tpc[j] \in {"start", "exec", "aligning"}

\* Path(output_file).exists()
OutputExists(f) == fs[f] # "absent"

\* A branch that runs the command whether or not the output exists.
BranchAlwaysRun(exists) == "start"

\* if Path(output_file).exists(): ... else: ...
Branch(exists) == IF exists THEN "skip" ELSE "start"

\* The evaluation of the condition of the if; the branch taken runs later.
Check(i) ==
    /\ tpc[i] = "check"
    /\ LET exists == OutputExists(tout[i])
       IN  /\ sawfile' = [sawfile EXCEPT ![i] = IF exists THEN "present" ELSE "absent"]
           /\ tpc' = [tpc EXCEPT ![i] = Branch(exists)]
    /\ stale' = [stale EXCEPT ![i] = stale[i] /\ lastfail[tout[i]] = tid[i]]
    /\ UNCHANGED <<fs, tid, tcmd, tout, tlog, nalign, arc, texit, lastfail, launches>>
    /\ UNCHANGED mainvars

\* print(f'Task {task_id}. Output file already exists:', ...) and the end of the script.
LogSkip(i) ==
    /\ tpc[i] = "skip"
    /\ tlog' = [tlog EXCEPT ![i] = Append(tlog[i], "exists")]
    /\ texit' = [texit EXCEPT ![i] = 0]
    /\ tpc' = [tpc EXCEPT ![i] = "exited"]
    /\ UNCHANGED <<fs, tid, tcmd, tout, sawfile, nalign, arc, lastfail, stale, launches>>
    /\ UNCHANGED mainvars

\* print(f'Task {task_id}. Executing command @', ...)
LogStart(i) ==
    /\ tpc[i] = "start"
    /\ tlog' = [tlog EXCEPT ![i] = Append(tlog[i], "executing")]
    /\ tpc' = [tpc EXCEPT ![i] = "exec"]
    /\ UNCHANGED <<fs, tid, tcmd, tout, sawfile, nalign, arc, texit, lastfail, stale, launches>>
    /\ UNCHANGED mainvars

\* subprocess.run(command.split()) starts the aligner; a missing executable
\* raises FileNotFoundError, which ends the script with status 1.
Exec(i) ==
    /\ tpc[i] = "exec"
    /\ \E found \in BOOLEAN :
          IF found
          THEN /\ nalign' = [nalign EXCEPT ![i] = nalign[i] + 1]
               /\ tpc' = [tpc EXCEPT ![i] = "aligning"]
               /\ texit' = texit
          ELSE /\ nalign' = nalign
               /\ tpc' = [tpc EXCEPT ![i] = "exited"]
               /\ texit' = [texit EXCEPT ![i] = 1]
    /\ UNCHANGED <<fs, tid, tcmd, tout, sawfile, tlog, arc, lastfail, stale, launches>>
    /\ UNCHANGED mainvars

\* The aligner opens its -S file and writes part of it.
AlignerWrite(i) ==
    /\ tpc[i] = "aligning"
    /\ fs[tout[i]] # "truncated"
    /\ fs' = [fs EXCEPT ![tout[i]] = "truncated"]
    /\ UNCHANGED <<tpc, tid, tcmd, tout, sawfile, tlog, nalign, arc, texit, lastfail, stale, launches>>
    /\ UNCHANGED mainvars

\* The aligner ends: with status 0 and the output complete, or with a
\* non-zero status and whatever it had written (nothing, or a truncated
\* file); subprocess.run returns its CompletedProcess.
AlignerExit(i, rc) ==
    /\ tpc[i] = "aligning"
    /\ arc' = [arc EXCEPT ![i] = rc]
    /\ IF rc = 0
       THEN /\ fs' = [fs EXCEPT ![tout[i]] = "complete"]
            /\ lastfail' = [lastfail EXCEPT ![tout[i]] = 0]
       ELSE /\ fs' = fs
            /\ lastfail' = [lastfail EXCEPT ![tout[i]] = tid[i]]
    /\ tpc' = [tpc EXCEPT ![i] = "finish"]
    /\ UNCHANGED <<tid, tcmd, tout, sawfile, tlog, nalign, texit, stale, launches>>
    /\ UNCHANGED mainvars

\* The exit status of the script after subprocess.run has returned: the
\* CompletedProcess is dropped and the script runs to its end.
ScriptExit(rc) == 0

\* print(f'Task {task_id}. Finished execution @', ...) and the end of the script.
LogFinish(i) ==
    /\ tpc[i] = "finish"
    /\ tlog' = [tlog EXCEPT ![i] = Append(tlog[i], "finished")]
    /\ texit' = [texit EXCEPT ![i] = ScriptExit(arc[i])]
    /\ tpc' = [tpc EXCEPT ![i] = "exited"]
    /\ UNCHANGED <<fs, tid, tcmd, tout, sawfile, nalign, arc, lastfail, stale, launches>>
    /\ UNCHANGED mainvars

TaskNext ==
    \E i \in Inst :
        \/ \E k \in 1..MaxFiles : Launch(i, k)
        \/ Load(i)
        \/ Check(i)
        \/ LogSkip(i)
        \/ LogStart(i)
        \/ Exec(i)
        \/ AlignerWrite(i)
        \/ \E rc \in {0, 1} : AlignerExit(i, rc)
        \/ LogFinish(i)

TaskSpec == TaskInit /\ [][TaskNext]_vars

(***************************************************************************)
(* Properties of main()                                                    *)
(***************************************************************************)

\* The paths of the directory that match '*R1_paired*' and '*R2_paired*'.
R1Matches == {PathJoin(InputDir, n) : n \in {m \in dir : Contains(m, R1_PAIRED)}}
R2Matches == {PathJoin(InputDir, n) : n \in {m \in dir : Contains(m, R2_PAIRED)}}

\* Each side of the pairs is in strictly ascending order of path string.
SidesAscending ==
    \A i \in DOMAIN files.paired : \A j \in DOMAIN files.paired :
        i < j => StrLess(files.paired[i][1], files.paired[j][1])
                 /\ StrLess(files.paired[i][2], files.paired[j][2])

\* C1: in the result of search_files, no path that is a component of a pair
\* of 'paired' also occurs in 'unpaired', whatever the directory holds.
C1_PairedNeverUnpaired ==
    \A i \in DOMAIN files.paired : \A k \in DOMAIN files.unpaired :
        files.paired[i][1] # files.unpaired[k] /\ files.paired[i][2] # files.unpaired[k]

\* C1 witness: R1 and R2 lists of unequal length, a pair holding a file that
\* also matches '*trimmed.fastq', and a non-empty 'unpaired'.
C1_Witness ==
    /\ mpc = "searched"
    /\ Cardinality(R1Matches) # Cardinality(R2Matches)
    /\ files.unpaired # <<>>
    /\ \E i \in DOMAIN files.paired : EndsWith(files.paired[i][2], TRIMMED_FASTQ)

\* C2 as stated: with as many R1 as R2 matches, both sides of the pairs are
\* ascending and every file matching either convention is in exactly one
\* position of exactly one pair.
C2_EveryFileInOnePosition ==
    (mpc = "searched" /\ Cardinality(R1Matches) = Cardinality(R2Matches)) =>
        /\ SidesAscending
        /\ \A f \in R1Matches \cup R2Matches :
              Cardinality({<<i, side>> \in (DOMAIN files.paired) \X {1, 2} :
                              files.paired[i][side] = f}) = 1

\* C2 amended: with as many R1 as R2 matches, both sides of the pairs are
\* ascending, every file matching the R1 convention is the first component of
\* exactly one pair and every file matching the R2 convention the second
\* component of exactly one pair, and the pairs hold nothing else; a file
\* matching both conventions so occupies two positions.
C2_EachSideOnce ==
    (mpc = "searched" /\ Cardinality(R1Matches) = Cardinality(R2Matches)) =>
        /\ SidesAscending
        /\ \A f \in R1Matches :
              Cardinality({i \in DOMAIN files.paired : files.paired[i][1] = f}) = 1
        /\ \A f \in R2Matches :
              Cardinality({i \in DOMAIN files.paired : files.paired[i][2] = f}) = 1
        /\ \A i \in DOMAIN files.paired :
              files.paired[i][1] \in R1Matches /\ files.paired[i][2] \in R2Matches

\* C2 witness: two pairs made of equally many R1 and R2 matches, one file
\* matching both conventions.
C2_Witness ==
    /\ mpc = "searched"
    /\ Cardinality(R1Matches) = Cardinality(R2Matches)
    /\ Len(files.paired) = 2
    /\ R1Matches \cap R2Matches # {}

\* C3: the output paths (the token after -S) of the assembled commands are
\* pairwise distinct.
C3_DistinctOutputs ==
    \A i \in DOMAIN commands : \A j \in DOMAIN commands :
        i # j => OutputFile(commands[i]) # OutputFile(commands[j])

\* C5: the generated script declares the task range 1-N, N the number of
\* commands, and its commands mapping has exactly the keys 1..N, key k mapped
\* to the k-th command in assembly order.
C5_ScriptMapsEveryCommand ==
    mpc \in {"generated", "written", "returned"} =>
        /\ TaskRangeUpper(script) = Len(commands)
        /\ LoadCommands(script).ok
        /\ DOMAIN LoadCommands(script).map = 1..Len(commands)
        /\ \A k \in 1..Len(commands) : LoadCommands(script).map[k] = commands[k]

\* C6: two runs of search_files and assemble_commands over the same directory
\* contents, index prefix and output directory give the same task id to
\* command mapping, whatever order the directory scans yield.
C6_SameCommandsEveryRun ==
    (runs >= 1 /\ mpc = "assembled") => commands = prev

\* C8: a qsub that returns non-zero or cannot be found makes main fail (it
\* does not complete normally), and qsub is attempted exactly once.
C8_QsubFailureIsFatal ==
    /\ qsub_rc \in {"nonzero", "notfound"} => mpc = "raised"
    /\ qsub_rc # "none" => qsub_calls = 1

(***************************************************************************)
(* Properties of the generated script                                      *)
(***************************************************************************)

\* C4: an instance whose existence check found the output file of its task
\* logs the 'already exists' message and ends without starting the aligner
\* and without logging a start or a finish message.
C4_ExistingOutputIsSkipped ==
    \A i \in Inst :
        sawfile[i] = "present" =>
            /\ tpc[i] \in {"skip", "exited"}
            /\ nalign[i] = 0
            /\ tlog[i] = (IF tpc[i] = "exited" THEN <<"exists">> ELSE <<>>)

\* C4 witness: of the two output files of a script one exists, and a run of
\* its task has seen it, logged the skip and ended.
C4_Witness ==
    /\ Len(commands) = 2
    /\ \E i \in Inst :
          /\ tpc[i] = "exited"
          /\ sawfile[i] = "present"
          /\ tlog[i] = <<"exists">>
          /\ \E f \in DOMAIN fs : f # tout[i] /\ fs[f] = "absent"

\* C7: a run of task k launched after a failed aligner run of k (which left
\* no or a truncated output file) finds the task not yet done: its existence
\* check does not find the file, and it runs the aligner again.
C7_FailedTaskIsRetried ==
    \A i \in Inst : (stale[i] /\ sawfile[i] # "none") => sawfile[i] = "absent"

\* C9: an instance that has run the aligner ends with the exit status of the
\* aligner, and has run it once.
C9_ExitStatusIsAligners ==
    \A i \in Inst :
        (tpc[i] = "exited" /\ nalign[i] > 0) => (texit[i] = arc[i] /\ nalign[i] = 1)

\* C10: the existence check takes no lock: an instance whose check finds no
\* output file goes on to run the command, whatever the other instances do.
C10_CheckTakesNoLock ==
    [][\A i \in Inst :
          (tpc[i] = "check" /\ tpc'[i] # "check" /\ fs[tout[i]] = "absent") => tpc'[i] = "start"]_vars

\* C10 witness: two instances with the same task id have both passed the
\* existence check and both run the aligner on the same output file.
C10_Witness ==
    /\ tid[1] = tid[2]
    /\ tout[1] = tout[2]
    /\ sawfile[1] = "absent" /\ sawfile[2] = "absent"
    /\ tpc[1] = "aligning" /\ tpc[2] = "aligning"

====
